---- MODULE Spec2Model ----
(***************************************************************************)
(* A model of the Awair Local API client (src/src/lib.rs): construction of *)
(* the client from a base URL string, and the two read-only calls poll()   *)
(* and config(), each of which joins a path onto the base URL, issues one  *)
(* blocking GET, checks the HTTP status and decodes the JSON body.         *)
(*                                                                         *)
(* Strings that the program parses are token sequences: a token is either  *)
(* one of the URL delimiters ":", "/", "?", "#", " " or a maximal run of   *)
(* other characters, so "http://10.0.0.5" is                               *)
(* <<"http", ":", "/", "/", "10.0.0.5">>.                                  *)
(***************************************************************************)
EXTENDS Integers, Sequences, FiniteSets, TLC

VARIABLES
    client,     \* the Awair value the caller holds: None or Some(awair)
    newInput,   \* the argument of the latest Awair::new call
    newResult,  \* what the latest Awair::new call returned
    pc,         \* per caller: "idle", "waiting" (inside send()) or "done"
    op,         \* per caller: the call in progress, "poll" or "config"
    target,     \* per caller: the URL of the GET this call issued
    net,        \* per caller: the call's request or its answer on the network
    steps,      \* per caller: the steps of the call executed so far, in order
    result,     \* per caller: the Result the call returned
    calls,      \* number of poll()/config() calls started
    gets        \* number of GET requests issued on the transport handle

vars == <<client, newInput, newResult, pc, op, target, net, steps, result,
          calls, gets>>

\* ------------------------------------------------------------------ bounds

\* Calls of poll() and config() started in one behaviour.
MaxCalls == 3

\* The threads that share the client.
Callers == {"t1", "t2"}

\* ---------------------------------------------------------------- options

None == <<>>

Some(x) == <<x>>

\* ------------------------------------------------------------ URL parsing

Rest(s, i) == SubSeq(s, i, Len(s))

RECURSIVE PrefixLen(_, _)
\* Length of the longest prefix of s holding no token of stops.
PrefixLen(s, stops) ==
    IF s = <<>> \/ Head(s) \in stops THEN 0
    ELSE 1 + PrefixLen(Tail(s), stops)

\* Tokens that can be a URL scheme: an ASCII letter, then letters, digits, +, -, .
SchemeWords == {"http", "HTTP", "https", "mailto", "data", "unix", "not",
                "localhost"}

\* ASCII lower-casing, as applied to the scheme and to a special scheme's host.
Lower(w) ==
    CASE w = "HTTP" -> "http"
      [] w = "Awair.Local" -> "awair.local"
      [] OTHER -> w

SpecialSchemes == {"http", "https", "ws", "wss", "ftp"}

DefaultPort(scheme) ==
    CASE scheme \in {"http", "ws"} -> Some(80)
      [] scheme \in {"https", "wss"} -> Some(443)
      [] scheme = "ftp" -> Some(21)
      [] OTHER -> None

\* Decimal port tokens and their values; any other token is not a number.
PortDigits == {"80", "8080", "443", "99999"}

PortValue(w) ==
    CASE w = "80" -> 80
      [] w = "8080" -> 8080
      [] w = "443" -> 443
      [] w = "99999" -> 99999

PortText(n) == CHOOSE w \in PortDigits : PortValue(w) = n

UrlErr(diag) == [ok |-> FALSE, diag |-> diag, url |-> None]

UrlOk(u) == [ok |-> TRUE, diag |-> "", url |-> Some(u)]

\* path ? query # fragment, the part of a URL after its authority.
ParseTail(s) ==
    LET pathLen == PrefixLen(s, {"?", "#"})
        afterPath == Rest(s, pathLen + 1)
        hasQuery == afterPath # <<>> /\ Head(afterPath) = "?"
        queryLen == IF hasQuery THEN PrefixLen(Tail(afterPath), {"#"}) ELSE 0
        afterQuery == IF hasQuery THEN Rest(Tail(afterPath), queryLen + 1)
                      ELSE afterPath
        hasFragment == afterQuery # <<>> /\ Head(afterQuery) = "#"
    IN  [path |-> SubSeq(s, 1, pathLen),
         query |-> IF hasQuery THEN Some(SubSeq(Tail(afterPath), 1, queryLen))
                   ELSE None,
         fragment |-> IF hasFragment THEN Some(Tail(afterQuery)) ELSE None]

\* host [":" port] followed by the tail, for a URL with an authority.
ParseAuthority(scheme, s) ==
    LET special == scheme \in SpecialSchemes
        hostLen == PrefixLen(s, {":", "/", "?", "#", " "})
        hostToks == SubSeq(s, 1, hostLen)
        afterHost == Rest(s, hostLen + 1)
        hasColon == afterHost # <<>> /\ Head(afterHost) = ":"
        portLen == IF hasColon THEN PrefixLen(Tail(afterHost), {"/", "?", "#"})
                   ELSE 0
        portToks == IF hasColon THEN SubSeq(Tail(afterHost), 1, portLen)
                    ELSE <<>>
        afterPort == IF hasColon THEN Rest(Tail(afterHost), portLen + 1)
                     ELSE afterHost
        badPort == portToks # <<>> /\
                   (Len(portToks) > 1 \/ portToks[1] \notin PortDigits
                    \/ PortValue(portToks[1]) > 65535)
        tail == ParseTail(afterPort)
        port == IF portToks = <<>> THEN None
                ELSE IF Some(PortValue(portToks[1])) = DefaultPort(scheme)
                     THEN None
                     ELSE Some(PortValue(portToks[1]))
    IN  IF special /\ hostToks = <<>> THEN UrlErr("EmptyHost")
        ELSE IF afterHost # <<>> /\ Head(afterHost) = " "
             THEN UrlErr("InvalidDomainCharacter")
        ELSE IF badPort THEN UrlErr("InvalidPort")
        ELSE UrlOk([scheme |-> scheme,
                    host |-> IF hostToks = <<>> THEN Some("")
                             ELSE Some(IF special THEN Lower(hostToks[1])
                                       ELSE hostToks[1]),
                    port |-> port,
                    path |-> IF special /\ tail.path = <<>> THEN <<"/">>
                             ELSE tail.path,
                    query |-> tail.query,
                    fragment |-> tail.fragment,
                    cannot_be_a_base |-> FALSE])

RECURSIVE SkipSlashes(_)
SkipSlashes(s) ==
    IF s # <<>> /\ Head(s) = "/" THEN SkipSlashes(Tail(s)) ELSE s

\* url::Url::parse: an absolute URL from a string, or a parse diagnostic.
UrlParse(s) ==
    IF ~(Len(s) >= 2 /\ s[1] \in SchemeWords /\ s[2] = ":")
    THEN UrlErr("RelativeUrlWithoutBase")
    ELSE
        LET scheme == Lower(s[1])
            rest == Rest(s, 3)
        IN  IF scheme \in SpecialSchemes
            THEN ParseAuthority(scheme, SkipSlashes(rest))
            ELSE IF Len(rest) >= 2 /\ rest[1] = "/" /\ rest[2] = "/"
            THEN ParseAuthority(scheme, Rest(rest, 3))
            ELSE LET tail == ParseTail(rest)
                 IN  UrlOk([scheme |-> scheme,
                            host |-> None,
                            port |-> None,
                            path |-> tail.path,
                            query |-> tail.query,
                            fragment |-> tail.fragment,
                            cannot_be_a_base |->
                                ~(rest # <<>> /\ Head(rest) = "/")])

\* Url::cannot_be_a_base
CannotBeABase(u) == u.cannot_be_a_base

\* The URL's serialization, what `api_base.into()` gives for a String.
UrlSerialize(u) ==
    <<u.scheme, ":">>
    \o (IF u.host = None THEN <<>> ELSE <<"/", "/">>)
    \o (IF u.host = None \/ u.host = Some("") THEN <<>> ELSE u.host)
    \o (IF u.port = None THEN <<>> ELSE <<":", PortText(u.port[1])>>)
    \o u.path
    \o (IF u.query = None THEN <<>> ELSE <<"?">> \o u.query[1])
    \o (IF u.fragment = None THEN <<>> ELSE <<"#">> \o u.fragment[1])

\* Variant of UrlJoin: only the path is replaced, as Url::set_path would.
UrlJoinKeepsQuery(base, ref) ==
    IF base.cannot_be_a_base THEN UrlErr("RelativeUrlWithCannotBeABaseBase")
    ELSE UrlOk([base EXCEPT !.path = ParseTail(ref).path])

\* Url::join with a path-absolute reference ("/..."): the base's scheme and
\* authority with the reference's path, query and fragment.
UrlJoin(base, ref) ==
    IF base.cannot_be_a_base THEN UrlErr("RelativeUrlWithCannotBeABaseBase")
    ELSE LET tail == ParseTail(ref)
         IN  UrlOk([base EXCEPT !.path = tail.path,
                                !.query = tail.query,
                                !.fragment = tail.fragment])

\* ------------------------------------------------------------ JSON values

JInt(n) == [ty |-> "int", n |-> n]

\* The decimal number n / d.
JFloat(n, d) == [ty |-> "float", n |-> n, d |-> d]

\* The integer literal 4294967296, one past u32::MAX.
JBig == [ty |-> "big"]

JStr(s) == [ty |-> "str", s |-> s]

JObj(o) == [ty |-> "obj", o |-> o]

\* --------------------------------------------------------- typed decoding

Pow2(k) == 2^k

\* a / b rounded to the nearest integer, ties to even.
RoundHalfEven(a, b) ==
    LET q == a \div b
        r == a % b
    IN  IF 2 * r < b THEN q
        ELSE IF 2 * r > b THEN q + 1
        ELSE q + (q % 2)

RECURSIVE ShiftDown(_, _, _)
\* The least k >= from with n < 2^24 * d * 2^k.
ShiftDown(n, d, from) ==
    IF (n \div Pow2(from)) < Pow2(24) * d THEN from
    ELSE ShiftDown(n, d, from + 1)

RECURSIVE ShiftUp(_, _, _)
\* The least k >= from with n * 2^k >= 2^23 * d.
ShiftUp(n, d, from) ==
    IF n * Pow2(from) >= Pow2(23) * d THEN from
    ELSE ShiftUp(n, d, from + 1)

\* The f32 nearest to n / d (n >= 0, d > 0): mantissa m in 2^23 .. 2^24 - 1
\* and exponent e, the value being m * 2^e; zero is m = 0, e = 0.
F32Of(n, d) ==
    IF n = 0 THEN [m |-> 0, e |-> 0]
    ELSE LET down == ShiftDown(n, d, 0)
             up == IF down = 0 THEN ShiftUp(n, d, 0) ELSE 0
             m == IF down > 0 THEN RoundHalfEven(n, d * Pow2(down))
                  ELSE RoundHalfEven(n * Pow2(up), d)
         IN  IF m = Pow2(24) THEN [m |-> Pow2(23), e |-> down - up + 1]
             ELSE [m |-> m, e |-> down - up]

\* chrono's RFC 3339 parse into DateTime<Utc>: the instant, in UTC; "" when
\* the string is no RFC 3339 timestamp.
Rfc3339Utc(s) ==
    CASE s = "2021-01-02T03:04:05.000Z" -> "2021-01-02T03:04:05Z"
      [] s = "2021-01-02T04:04:05+01:00" -> "2021-01-02T03:04:05Z"
      [] s = "2021-06-07T08:09:10Z" -> "2021-06-07T08:09:10Z"
      [] OTHER -> ""

DecodeErr == [ok |-> FALSE]

DecodeOk(v) == [ok |-> TRUE, val |-> v]

\* Variant of AirDataFields: co2 and estimated_co2 read each other's key.
AirDataFieldsSwapped == {
    [field |-> "timestamp", wire |-> "timestamp", ty |-> "datetime"],
    [field |-> "score", wire |-> "score", ty |-> "u8"],
    [field |-> "dew_point", wire |-> "dew_point", ty |-> "f32"],
    [field |-> "temperature", wire |-> "temp", ty |-> "f32"],
    [field |-> "humidity", wire |-> "humid", ty |-> "f32"],
    [field |-> "absolute_humidity", wire |-> "abs_humid", ty |-> "f32"],
    [field |-> "co2", wire |-> "co2_est", ty |-> "u32"],
    [field |-> "estimated_co2", wire |-> "co2", ty |-> "u32"],
    [field |-> "estimated_co2_baseline", wire |-> "co2_est_baseline",
     ty |-> "u32"],
    [field |-> "voc", wire |-> "voc", ty |-> "u32"],
    [field |-> "voc_baseline", wire |-> "voc_baseline", ty |-> "u32"],
    [field |-> "voc_h2_raw", wire |-> "voc_h2_raw", ty |-> "u32"],
    [field |-> "voc_ethanol_raw", wire |-> "voc_ethanol_raw", ty |-> "u32"],
    [field |-> "pm25", wire |-> "pm25", ty |-> "u32"],
    [field |-> "estimated_pm10", wire |-> "pm10_est", ty |-> "u32"] }

\* The fields of struct AirData: Rust name, serde (wire) name, Rust type.
AirDataFields == {
    [field |-> "timestamp", wire |-> "timestamp", ty |-> "datetime"],
    [field |-> "score", wire |-> "score", ty |-> "u8"],
    [field |-> "dew_point", wire |-> "dew_point", ty |-> "f32"],
    [field |-> "temperature", wire |-> "temp", ty |-> "f32"],
    [field |-> "humidity", wire |-> "humid", ty |-> "f32"],
    [field |-> "absolute_humidity", wire |-> "abs_humid", ty |-> "f32"],
    [field |-> "co2", wire |-> "co2", ty |-> "u32"],
    [field |-> "estimated_co2", wire |-> "co2_est", ty |-> "u32"],
    [field |-> "estimated_co2_baseline", wire |-> "co2_est_baseline",
     ty |-> "u32"],
    [field |-> "voc", wire |-> "voc", ty |-> "u32"],
    [field |-> "voc_baseline", wire |-> "voc_baseline", ty |-> "u32"],
    [field |-> "voc_h2_raw", wire |-> "voc_h2_raw", ty |-> "u32"],
    [field |-> "voc_ethanol_raw", wire |-> "voc_ethanol_raw", ty |-> "u32"],
    [field |-> "pm25", wire |-> "pm25", ty |-> "u32"],
    [field |-> "estimated_pm10", wire |-> "pm10_est", ty |-> "u32"] }

\* The fields of struct LedConfig.
LedConfigFields == {
    [field |-> "mode", wire |-> "mode", ty |-> "string"],
    [field |-> "brightness", wire |-> "brightness", ty |-> "u32"] }

\* The fields of struct DeviceConfig.
DeviceConfigFields == {
    [field |-> "device_id", wire |-> "device_uuid", ty |-> "string"],
    [field |-> "wifi_mac", wire |-> "wifi_mac", ty |-> "string"],
    [field |-> "ssid", wire |-> "ssid", ty |-> "string"],
    [field |-> "ip", wire |-> "ip", ty |-> "string"],
    [field |-> "netmask", wire |-> "netmask", ty |-> "string"],
    [field |-> "gateway", wire |-> "gateway", ty |-> "string"],
    [field |-> "firmware_version", wire |-> "fw_version", ty |-> "string"],
    [field |-> "timezone", wire |-> "timezone", ty |-> "string"],
    [field |-> "display", wire |-> "display", ty |-> "string"],
    [field |-> "led", wire |-> "led", ty |-> "LedConfig"],
    [field |-> "voc_feature_set", wire |-> "voc_feature_set", ty |-> "u32"] }

\* Variant of DeniedKeys: as under #[serde(deny_unknown_fields)].
DeniedKeysStrict(fields, o) == DOMAIN o \ {f.wire : f \in fields}

\* Variant of AbsentField: as under #[serde(default)].
AbsentFieldDefaulted(f) ==
    DecodeOk(CASE f.ty \in {"u8", "u32"} -> 0
               [] f.ty = "f32" -> [neg |-> FALSE, f |-> [m |-> 0, e |-> 0]]
               [] f.ty = "LedConfig" -> [mode |-> "", brightness |-> 0]
               [] OTHER -> "")

\* Which wire keys a derived struct decoder refuses: none, the derive carries
\* no deny_unknown_fields attribute.
DeniedKeys(fields, o) == {}

\* What a derived struct decoder does with a field whose wire key is absent:
\* nothing, no field carries a serde default, so the decode fails.
AbsentField(f) == DecodeErr

RECURSIVE DecodeValue(_, _)
RECURSIVE DecodeStruct(_, _)

\* serde's derived Deserialize for a struct, from a JSON object o (a function
\* from wire keys to JSON values).
DecodeStruct(fields, o) ==
    LET one(f) == IF f.wire \in DOMAIN o THEN DecodeValue(f.ty, o[f.wire])
                  ELSE AbsentField(f)
    IN  IF DeniedKeys(fields, o) # {} THEN DecodeErr
        ELSE IF \E f \in fields : ~one(f).ok THEN DecodeErr
        ELSE DecodeOk([name \in {f.field : f \in fields} |->
                          one(CHOOSE f \in fields : f.field = name).val])

\* serde's Deserialize of one JSON value into a Rust type.
DecodeValue(ty, v) ==
    CASE ty = "u8" ->
            IF v.ty = "int" /\ v.n >= 0 /\ v.n <= 255 THEN DecodeOk(v.n)
            ELSE DecodeErr
      [] ty = "u32" ->
            \* every non-negative "int" here is below 2^32; JBig is not
            IF v.ty = "int" /\ v.n >= 0 THEN DecodeOk(v.n) ELSE DecodeErr
      [] ty = "f32" ->
            IF v.ty = "int" /\ v.n >= 0
            THEN DecodeOk([neg |-> FALSE, f |-> F32Of(v.n, 1)])
            ELSE IF v.ty = "int"
            THEN DecodeOk([neg |-> TRUE, f |-> F32Of(0 - v.n, 1)])
            ELSE IF v.ty = "float" /\ v.n >= 0
            THEN DecodeOk([neg |-> FALSE, f |-> F32Of(v.n, v.d)])
            ELSE IF v.ty = "float"
            THEN DecodeOk([neg |-> TRUE, f |-> F32Of(0 - v.n, v.d)])
            ELSE IF v.ty = "big"
            THEN DecodeOk([neg |-> FALSE, f |-> [m |-> Pow2(23), e |-> 9]])
            ELSE DecodeErr
      [] ty = "string" ->
            IF v.ty = "str" THEN DecodeOk(v.s) ELSE DecodeErr
      [] ty = "datetime" ->
            IF v.ty = "str" /\ Rfc3339Utc(v.s) # ""
            THEN DecodeOk(Rfc3339Utc(v.s)) ELSE DecodeErr
      [] ty = "LedConfig" ->
            IF v.ty = "obj" THEN DecodeStruct(LedConfigFields, v.o)
            ELSE DecodeErr

\* Response::json::<T>(): the body parsed as JSON and decoded as T.
DecodeJson(fields, body) ==
    IF ~body.json THEN DecodeErr
    ELSE IF body.v.ty # "obj" THEN DecodeErr
    ELSE DecodeStruct(fields, body.v.o)

\* ------------------------------------------------------------ the results

\* enum Error, and Ok.
Ok(v) == [kind |-> "Ok", value |-> v]

ErrInvalidBase(s) == [kind |-> "InvalidBase", url |-> s]

ErrInvalidUrl(diag) == [kind |-> "InvalidUrl", cause |-> diag]

ErrRequest(cause) == [kind |-> "Request", cause |-> cause]

NoResult == [kind |-> "none"]

\* ---------------------------------------------------------- the client

\* Variant of AwairNew: a URL that cannot be a base is reported as InvalidUrl.
AwairNewMisreported(s) ==
    LET parsed == UrlParse(s)
    IN  IF ~parsed.ok \/ CannotBeABase(parsed.url[1])
        THEN ErrInvalidUrl(IF parsed.ok THEN "CannotBeABase" ELSE parsed.diag)
        ELSE Ok([api_base |-> parsed.url[1], http |-> "Client"])

\* Variant of AwairNew: the cannot_be_a_base check is left out.
AwairNewUnchecked(s) ==
    LET parsed == UrlParse(s)
    IN  IF ~parsed.ok THEN ErrInvalidUrl(parsed.diag)
        ELSE Ok([api_base |-> parsed.url[1], http |-> "Client"])

\* Awair::new
AwairNew(s) ==
    LET parsed == UrlParse(s)
    IN  IF ~parsed.ok THEN ErrInvalidUrl(parsed.diag)
        ELSE IF CannotBeABase(parsed.url[1])
        THEN ErrInvalidBase(UrlSerialize(parsed.url[1]))
        ELSE Ok([api_base |-> parsed.url[1], http |-> "Client"])

\* The literal paths of poll() and config().
PathOf(o) ==
    IF o = "poll" THEN <<"/", "air-data", "/", "latest">>
    ELSE <<"/", "settings", "/", "config", "/", "data">>

\* The schema each call decodes into: AirData for poll, DeviceConfig for config.
FieldsOf(o) == IF o = "poll" THEN AirDataFields ELSE DeviceConfigFields

\* Response::error_for_status: an error for a 4xx or 5xx status.
IsErrorStatus(status) == status >= 400 /\ status <= 599

\* Variant of AfterSend: the body is decoded before the status is checked.
AfterSendDecodeFirst(fields, r) ==
    IF r.kind = "failed"
    THEN [steps |-> <<>>, result |-> ErrRequest("transport"), resent |-> 0]
    ELSE LET d == DecodeJson(fields, r.body)
         IN  IF ~d.ok
             THEN [steps |-> <<"decode">>, result |-> ErrRequest("decode"),
                   resent |-> 0]
             ELSE [steps |-> <<"decode", "status">>,
                   result |-> IF IsErrorStatus(r.status)
                              THEN ErrRequest("status") ELSE Ok(d.val),
                   resent |-> 0]

\* Variant of AfterSend: a failed send() is tried once more.
AfterSendRetry(fields, r) ==
    IF r.kind = "failed"
    THEN [steps |-> <<"get">>, result |-> ErrRequest("transport"),
          resent |-> 1]
    ELSE IF IsErrorStatus(r.status)
    THEN [steps |-> <<"status">>, result |-> ErrRequest("status"),
          resent |-> 0]
    ELSE LET d == DecodeJson(fields, r.body)
         IN  [steps |-> <<"status", "decode">>,
              result |-> IF d.ok THEN Ok(d.val) ELSE ErrRequest("decode"),
              resent |-> 0]

\* `.send()?.error_for_status()?.json::<T>()?` from the point where send()
\* has returned r: the steps run, the call's result, and how many further
\* GETs were issued (none: the chain has no loop).
AfterSend(fields, r) ==
    IF r.kind = "failed"
    THEN [steps |-> <<>>, result |-> ErrRequest("transport"), resent |-> 0]
    ELSE IF IsErrorStatus(r.status)
    THEN [steps |-> <<"status">>, result |-> ErrRequest("status"),
          resent |-> 0]
    ELSE LET d == DecodeJson(fields, r.body)
         IN  [steps |-> <<"status", "decode">>,
              result |-> IF d.ok THEN Ok(d.val) ELSE ErrRequest("decode"),
              resent |-> 0]

\* --------------------------------------------------------------- inputs

\* Arguments given to Awair::new.
Inputs == {
    <<"http", ":", "/", "/", "10.0.0.5">>,
    <<"http", ":", "/", "/", "192.168.1.10", ":", "8080", "/", "ignored",
      "?", "x=1">>,
    <<"HTTP", ":", "/", "/", "Awair.Local", ":", "80", "/", "p", "#", "frag">>,
    <<"http", ":", "awair.local">>,
    <<"unix", ":", "/", "run", "/", "awair.sock">>,
    <<"mailto", ":", "foo@example.com">>,
    <<"data", ":", "text", "/", "plain,hi">>,
    <<"localhost", ":", "8080">>,
    <<"not", " ", "a", " ", "url">>,
    <<"192.168.1.10", ":", "8080">>,
    <<"/", "air-data", "/", "latest">>,
    <<"http", ":", "/", "/">>,
    <<"http", ":", "/", "/", "10.0.0.5", ":", "99999">>,
    <<>> }

\* A well-formed /air-data/latest body; every key has its own value.
AirWire == [
    timestamp |-> JStr("2021-01-02T03:04:05.000Z"),
    score |-> JInt(85),
    dew_point |-> JFloat(1025, 100),
    temp |-> JFloat(2157, 100),
    humid |-> JFloat(4012, 100),
    abs_humid |-> JInt(7),
    co2 |-> JInt(612),
    co2_est |-> JInt(400),
    co2_est_baseline |-> JInt(35000),
    voc |-> JInt(120),
    voc_baseline |-> JInt(37000),
    voc_h2_raw |-> JInt(25),
    voc_ethanol_raw |-> JInt(36),
    pm25 |-> JInt(3),
    pm10_est |-> JInt(4) ]

LedWire == [mode |-> JStr("auto"), brightness |-> JInt(20)]

\* A well-formed /settings/config/data body.
ConfigWire == [
    device_uuid |-> JStr("awair-element_1234"),
    wifi_mac |-> JStr("70:88:6B:00:00:01"),
    ssid |-> JStr("home"),
    ip |-> JStr("192.168.1.10"),
    netmask |-> JStr("255.255.255.0"),
    gateway |-> JStr("192.168.1.1"),
    fw_version |-> JStr("1.1.5"),
    timezone |-> JStr("America/New_York"),
    display |-> JStr("score"),
    led |-> JObj(LedWire),
    voc_feature_set |-> JInt(34) ]

Without(o, k) == [x \in DOMAIN o \ {k} |-> o[x]]

\* Keys no schema names; two of them are Rust field names.
AirExtra == [temperature |-> JFloat(9999, 100), foo |-> JStr("bar"),
             led |-> JObj(LedWire)]

ConfigExtra == [device_id |-> JStr("other"), firmware_version |-> JInt(2),
                score |-> JInt(1)]

JsonBody(o) == [json |-> TRUE, v |-> JObj(o)]

Malformed == [json |-> FALSE]

AirGood == {
    AirWire,
    [AirWire EXCEPT !.score = JInt(100)],
    [AirWire EXCEPT !.score = JInt(200)],
    [AirWire EXCEPT !.timestamp = JStr("2021-01-02T04:04:05+01:00")],
    [AirWire EXCEPT !.abs_humid = JInt(16777217), !.dew_point = JInt(-3)],
    [AirWire EXCEPT !.temp = JBig, !.humid = JFloat(-550, 100)] }

AirBad ==
    { Without(AirWire, k) : k \in DOMAIN AirWire }
    \cup { [AirWire EXCEPT !.score = JInt(256)],
           [AirWire EXCEPT !.score = JInt(-1)],
           [AirWire EXCEPT !.co2 = JFloat(6125, 10)],
           [AirWire EXCEPT !.co2 = JBig],
           [AirWire EXCEPT !.temp = JStr("hot")],
           [AirWire EXCEPT !.timestamp = JStr("yesterday")] }

ConfigGood == {
    ConfigWire,
    [ConfigWire EXCEPT !.ssid = JStr("guest"),
                       !.led = JObj([mode |-> JStr("manual"),
                                     brightness |-> JInt(0)])] }

\* A body with keys added that its schema does not name, at the top level
\* and, for a config body, inside "led" too.
WithExtra(o, b) ==
    IF o = "poll" THEN b @@ AirExtra
    ELSE [b @@ ConfigExtra EXCEPT
            !.led = JObj(b.led.o @@ [color |-> JStr("green")])]

ConfigBad ==
    { Without(ConfigWire, k) : k \in DOMAIN ConfigWire }
    \cup { [ConfigWire EXCEPT !.led = JObj(Without(LedWire, k))] :
             k \in DOMAIN LedWire }
    \cup { [ConfigWire EXCEPT !.led = JStr("auto")],
           [ConfigWire EXCEPT !.voc_feature_set = JInt(-1)],
           [ConfigWire EXCEPT !.ssid = JInt(5)] }

\* Bodies the device may send with a success status, per call.
Bodies(o) ==
    { Malformed, [json |-> TRUE, v |-> JStr("ok")] }
    \cup IF o = "poll"
         THEN { JsonBody(b) : b \in AirGood \cup AirBad }
              \cup { JsonBody(WithExtra(o, b)) : b \in AirGood }
              \cup { JsonBody(ConfigWire) }
         ELSE { JsonBody(b) : b \in ConfigGood \cup ConfigBad }
              \cup { JsonBody(WithExtra(o, b)) : b \in ConfigGood }
              \cup { JsonBody(AirWire) }

\* Bodies sent with the other statuses.
FewBodies(o) ==
    { Malformed,
      JsonBody(IF o = "poll" THEN AirWire ELSE ConfigWire),
      JsonBody(IF o = "poll" THEN Without(AirWire, "co2")
               ELSE Without(ConfigWire, "led")) }

\* 300 Multiple Choices is no redirect the transport follows, and has a body.
Statuses == {200, 300, 404, 500}

\* What the device may answer to the GET of call o.
Responses(o) ==
    { [kind |-> "response", status |-> s, body |-> b] :
        s \in Statuses, b \in FewBodies(o) }
    \cup { [kind |-> "response", status |-> 200, body |-> b] :
             b \in Bodies(o) }

PollResponses == Responses("poll")

ConfigResponses == Responses("config")

SendFailed == [kind |-> "failed"]

\* The rest of a poll() and of a config() for each thing send() can return.
PollOutcome ==
    [r \in PollResponses \cup {SendFailed} |-> AfterSend(AirDataFields, r)]

ConfigOutcome ==
    [r \in ConfigResponses \cup {SendFailed} |->
        AfterSend(DeviceConfigFields, r)]

Outcome(o, r) ==
    IF o = "poll" /\ r \in DOMAIN PollOutcome THEN PollOutcome[r]
    ELSE IF o = "config" /\ r \in DOMAIN ConfigOutcome THEN ConfigOutcome[r]
    ELSE AfterSend(FieldsOf(o), r)

\* -------------------------------------------------------------- actions

Idle == [kind |-> "none"]

Init ==
    /\ client = None
    /\ newInput = None
    /\ newResult = NoResult
    /\ pc = [t \in Callers |-> "idle"]
    /\ op = [t \in Callers |-> "none"]
    /\ target = [t \in Callers |-> None]
    /\ net = [t \in Callers |-> Idle]
    /\ steps = [t \in Callers |-> <<>>]
    /\ result = [t \in Callers |-> NoResult]
    /\ calls = 0
    /\ gets = 0

\* The caller constructs a client from the string s.
New(s) ==
    /\ client = None
    /\ LET r == AwairNew(s)
       IN  /\ newInput' = Some(s)
           /\ newResult' = r
           /\ client' = IF r.kind = "Ok" THEN Some(r.value) ELSE None
    /\ UNCHANGED <<pc, op, target, net, steps, result, calls, gets>>

\* The caller lets go of the client; no call borrows it.
Drop ==
    /\ client # None
    /\ \A t \in Callers : pc[t] = "idle"
    /\ client' = None
    /\ UNCHANGED <<newInput, newResult, pc, op, target, net, steps, result,
                   calls, gets>>

\* poll() or config() up to the point where send() blocks: the join, then
\* the GET put on the network.
Call(t, o) ==
    /\ pc[t] = "idle"
    /\ client # None
    /\ calls < MaxCalls
    /\ calls' = calls + 1
    /\ op' = [op EXCEPT ![t] = o]
    /\ LET joined == UrlJoin(client[1].api_base, PathOf(o))
       IN  IF joined.ok
           THEN /\ target' = [target EXCEPT ![t] = joined.url]
                /\ net' = [net EXCEPT
                             ![t] = [kind |-> "request", url |-> joined.url[1]]]
                /\ gets' = gets + 1
                /\ steps' = [steps EXCEPT ![t] = <<"join", "get">>]
                /\ pc' = [pc EXCEPT ![t] = "waiting"]
                /\ UNCHANGED result
           ELSE /\ result' = [result EXCEPT ![t] = ErrInvalidUrl(joined.diag)]
                /\ steps' = [steps EXCEPT ![t] = <<"join">>]
                /\ pc' = [pc EXCEPT ![t] = "done"]
                /\ UNCHANGED <<target, net, gets>>
    /\ UNCHANGED <<client, newInput, newResult>>

Poll(t) == Call(t, "poll")

Config(t) == Call(t, "config")

\* Variant of Answer: the answer is taken from a slot the callers share.
AnswerShared(t, r) ==
    LET others == {u \in Callers \ {t} : net[u].kind \in {"response", "failed"}}
    IN  IF others = {} THEN r ELSE net[CHOOSE u \in others : TRUE]

\* What send() hands back to caller t when the device answered r to the
\* request t issued: that answer.
Answer(t, r) == r

\* The end of a call of caller t whose send() returned r.
Finish(t, r) ==
    /\ pc[t] = "waiting"
    /\ net[t].kind = "request"
    /\ net' = [net EXCEPT ![t] = r]
    /\ LET out == Outcome(op[t], Answer(t, r))
       IN  /\ steps' = [steps EXCEPT ![t] = steps[t] \o out.steps]
           /\ result' = [result EXCEPT ![t] = out.result]
           /\ gets' = gets + out.resent
    /\ pc' = [pc EXCEPT ![t] = "done"]
    /\ UNCHANGED <<client, newInput, newResult, op, target, calls>>

\* The transport fails the GET of caller t (no connection, reset, timeout):
\* send() returns an error and the call ends.
SendFails(t) == Finish(t, SendFailed)

\* The device answers the GET of caller t: send() returns the response and
\* the rest of the call runs.
SendReturns(t) ==
    \E r \in (IF op[t] = "poll" THEN PollResponses ELSE ConfigResponses) :
        Finish(t, r)

\* The caller takes the call's result; caller t can call again.
Return(t) ==
    /\ pc[t] = "done"
    /\ pc' = [pc EXCEPT ![t] = "idle"]
    /\ op' = [op EXCEPT ![t] = "none"]
    /\ target' = [target EXCEPT ![t] = None]
    /\ net' = [net EXCEPT ![t] = Idle]
    /\ steps' = [steps EXCEPT ![t] = <<>>]
    /\ result' = [result EXCEPT ![t] = NoResult]
    /\ UNCHANGED <<client, newInput, newResult, calls, gets>>

Next ==
    \/ \E s \in Inputs : New(s)
    \/ Drop
    \/ \E t \in Callers : Poll(t)
    \/ \E t \in Callers : Config(t)
    \/ \E t \in Callers : SendFails(t)
    \/ \E t \in Callers : SendReturns(t)
    \/ \E t \in Callers : Return(t)

Spec == Init /\ [][Next]_vars

\* ------------------------------------------------------------ properties

Answered(t) == pc[t] = "done" /\ net[t].kind = "response"

Succeeded(t) == pc[t] = "done" /\ result[t].kind = "Ok"

IsObject(body) == body.json /\ body.v.ty = "obj"

\* The construction examples of the specification: which outcome each has.
NewExamples == {
    [s |-> <<"http", ":", "/", "/", "10.0.0.5">>, kind |-> "Ok"],
    [s |-> <<"http", ":", "/", "/", "192.168.1.10", ":", "8080", "/",
             "ignored", "?", "x=1">>, kind |-> "Ok"],
    [s |-> <<"mailto", ":", "foo@example.com">>, kind |-> "InvalidBase"],
    [s |-> <<"data", ":", "text", "/", "plain,hi">>, kind |-> "InvalidBase"],
    [s |-> <<"not", " ", "a", " ", "url">>, kind |-> "InvalidUrl"] }

\* C1: new(s) has exactly one of three outcomes: InvalidUrl when s does not
\* parse; InvalidBase, carrying the rejected URL, when s parses to a URL that
\* cannot be a base; success otherwise, the client holding the parsed URL
\* with its scheme, host and port as parsed.
C1_NewClassifies ==
    newInput # None =>
        LET s == newInput[1]
            parsed == UrlParse(s)
        IN  /\ newResult.kind \in {"InvalidUrl", "InvalidBase", "Ok"}
            /\ (newResult.kind = "InvalidUrl") <=> ~parsed.ok
            /\ (newResult.kind = "InvalidBase") <=>
                   (parsed.ok /\ parsed.url[1].cannot_be_a_base)
            /\ newResult.kind = "InvalidBase" =>
                   newResult.url = UrlSerialize(parsed.url[1])
            /\ newResult.kind = "Ok" =>
                   /\ newResult.value.api_base.scheme = parsed.url[1].scheme
                   /\ newResult.value.api_base.host = parsed.url[1].host
                   /\ newResult.value.api_base.port = parsed.url[1].port
                   /\ client \in {None, Some(newResult.value)}
            /\ newResult.kind # "Ok" => client = None
            /\ \A ex \in NewExamples : ex.s = s => newResult.kind = ex.kind

C1_Witness ==
    /\ newInput = Some(<<"mailto", ":", "foo@example.com">>)
    /\ newResult = ErrInvalidBase(<<"mailto", ":", "foo@example.com">>)
    /\ client = None

\* C2: a poll() or config() of a constructed client that fails, fails with
\* Request; InvalidUrl and InvalidBase come from construction only.
C2_CallsFailWithRequest ==
    \A t \in Callers :
        pc[t] = "done" => result[t].kind \in {"Ok", "Request"}

C2_Witness ==
    \E t \in Callers :
        /\ Answered(t)
        /\ net[t].status = 404
        /\ result[t] = ErrRequest("status")
        /\ newResult.kind = "Ok"

CallOrder == <<"join", "get", "status", "decode">>

C4_TargetUrl ==
    \A t \in Callers :
        pc[t] # "idle" =>
            /\ client # None
            /\ target[t] # None
            /\ LET base == client[1].api_base
                   url == target[t][1]
               IN  /\ url.scheme = base.scheme
                   /\ url.host = base.host
                   /\ url.port = base.port
                   /\ url.path = (IF op[t] = "poll"
                                  THEN <<"/", "air-data", "/", "latest">>
                                  ELSE <<"/", "settings", "/", "config", "/",
                                         "data">>)
                   /\ url.query = None
                   /\ url.fragment = None
                   /\ net[t].kind = "request" => net[t].url = url
                   /\ (newInput = Some(<<"http", ":", "/", "/", "192.168.1.10",
                                         ":", "8080", "/", "ignored", "?",
                                         "x=1">>) /\ op[t] = "poll") =>
                          UrlSerialize(url) =
                              <<"http", ":", "/", "/", "192.168.1.10", ":",
                                "8080", "/", "air-data", "/", "latest">>

C4_Witness ==
    \E t \in Callers :
        /\ pc[t] = "waiting"
        /\ op[t] = "poll"
        /\ client # None
        /\ client[1].api_base.query = Some(<<"x=1">>)
        /\ net[t].kind = "request"
        /\ UrlSerialize(net[t].url) =
               <<"http", ":", "/", "/", "192.168.1.10", ":", "8080", "/",
                 "air-data", "/", "latest">>

\* The renaming table of the specification, and the fields that keep their
\* names, each with the kind of value the field holds.
AirTable == {
    <<"temp", "temperature", "f32">>,
    <<"humid", "humidity", "f32">>,
    <<"abs_humid", "absolute_humidity", "f32">>,
    <<"co2_est", "estimated_co2", "u32">>,
    <<"co2_est_baseline", "estimated_co2_baseline", "u32">>,
    <<"pm10_est", "estimated_pm10", "u32">>,
    <<"timestamp", "timestamp", "datetime">>,
    <<"score", "score", "u8">>,
    <<"dew_point", "dew_point", "f32">>,
    <<"co2", "co2", "u32">>,
    <<"voc", "voc", "u32">>,
    <<"voc_baseline", "voc_baseline", "u32">>,
    <<"voc_h2_raw", "voc_h2_raw", "u32">>,
    <<"voc_ethanol_raw", "voc_ethanol_raw", "u32">>,
    <<"pm25", "pm25", "u32">> }

ConfigTable == {
    <<"device_uuid", "device_id", "string">>,
    <<"fw_version", "firmware_version", "string">>,
    <<"wifi_mac", "wifi_mac", "string">>,
    <<"ssid", "ssid", "string">>,
    <<"ip", "ip", "string">>,
    <<"netmask", "netmask", "string">>,
    <<"gateway", "gateway", "string">>,
    <<"timezone", "timezone", "string">>,
    <<"display", "display", "string">>,
    <<"voc_feature_set", "voc_feature_set", "u32">> }

\* The value a field of the given kind holds for a wire value: integers and
\* strings as sent, a number as the nearest f32, a timestamp as its instant.
Held(ty, v) ==
    CASE ty \in {"u8", "u32"} -> v.n
      [] ty = "string" -> v.s
      [] ty = "datetime" -> Rfc3339Utc(v.s)
      [] ty = "f32" ->
            IF v.ty = "big" THEN [neg |-> FALSE, f |-> [m |-> 2^23, e |-> 9]]
            ELSE [neg |-> v.n < 0,
                  f |-> F32Of(IF v.n < 0 THEN 0 - v.n ELSE v.n,
                              IF v.ty = "float" THEN v.d ELSE 1)]

\* C5: every field of a returned record holds the value of its wire field:
\* the renamed fields by the renaming table, every other field under its own
\* name, no two fields from one wire key.
C5_FieldMapping ==
    \A t \in Callers :
        Succeeded(t) =>
            LET o == net[t].body.v.o
                rec == result[t].value
                table == IF op[t] = "poll" THEN AirTable ELSE ConfigTable
            IN  /\ \A row \in table : rec[row[2]] = Held(row[3], o[row[1]])
                /\ DOMAIN rec = {row[2] : row \in table}
                              \cup (IF op[t] = "poll" THEN {} ELSE {"led"})
                /\ op[t] = "config" =>
                       /\ rec.led.mode = o.led.o.mode.s
                       /\ rec.led.brightness = o.led.o.brightness.n
                       /\ DOMAIN rec.led = {"mode", "brightness"}
                /\ \A f, g \in FieldsOf(op[t]) : f.wire = g.wire => f = g

C5_Witness ==
    \E t \in Callers :
        /\ Succeeded(t)
        /\ op[t] = "poll"
        /\ net[t].body = JsonBody(AirWire)
        /\ result[t].value.estimated_co2 = 400
        /\ result[t].value.co2 = 612
        /\ result[t].value.temperature =
               [neg |-> FALSE, f |-> [m |-> 11308892, e |-> -19]]

\* The keys each schema requires, those of the nested LED record included.
MissesRequired(o, body) ==
    \/ ~IsObject(body)
    \/ IF o = "poll" THEN \E k \in DOMAIN AirWire : k \notin DOMAIN body.v.o
       ELSE \/ \E k \in DOMAIN ConfigWire : k \notin DOMAIN body.v.o
            \/ body.v.o.led.ty # "obj"
            \/ \E k \in DOMAIN LedWire : k \notin DOMAIN body.v.o.led.o

\* C6: a body that is not JSON, or that lacks a required field, makes the
\* call fail with Request; no record is returned.
C6_MissingFieldFails ==
    \A t \in Callers :
        (Answered(t) /\ MissesRequired(op[t], net[t].body)) =>
            (result[t].kind = "Request" /\ "value" \notin DOMAIN result[t])

C6_Witness ==
    \E t \in Callers :
        /\ Answered(t)
        /\ op[t] = "poll"
        /\ net[t].status = 200
        /\ net[t].body = JsonBody(Without(AirWire, "co2"))
        /\ result[t] = ErrRequest("decode")

Known(o) == {f.wire : f \in FieldsOf(o)}

\* A body without the keys its schema does not name.
Stripped(o, b) ==
    IF o = "poll" THEN [k \in DOMAIN b \cap Known(o) |-> b[k]]
    ELSE [k \in DOMAIN b \cap Known(o) |->
            IF k = "led"
            THEN JObj([j \in DOMAIN b.led.o \cap DOMAIN LedWire |-> b.led.o[j]])
            ELSE b[k]]

Sent200(b) == [kind |-> "response", status |-> 200, body |-> JsonBody(b)]

\* C7: a body that decodes, decodes to the same record with unknown keys
\* added to it, and a body with unknown keys decodes as it does without them.
C7_ExtraKeysIgnored ==
    \A t \in Callers :
        Succeeded(t) =>
            LET b == net[t].body.v.o
            IN  /\ Outcome(op[t], Sent200(WithExtra(op[t], b))).result
                       = result[t]
                /\ Outcome(op[t], Sent200(Stripped(op[t], b))).result
                       = result[t]

C7_Witness ==
    \E t \in Callers :
        /\ Succeeded(t)
        /\ op[t] = "poll"
        /\ net[t].body = JsonBody(AirWire @@ AirExtra)
        /\ result[t].value.temperature =
               [neg |-> FALSE, f |-> [m |-> 11308892, e |-> -19]]

\* C8: the score of every record poll() returns is between 0 and 100.
C8_ScoreRange ==
    \A t \in Callers :
        (Succeeded(t) /\ op[t] = "poll") =>
            (result[t].value.score >= 0 /\ result[t].value.score <= 100)

C10_CallsIndependent ==
    \A t \in Callers :
        pc[t] # "idle" =>
            /\ newResult.kind = "Ok"
            /\ client = Some(newResult.value)
            /\ client[1].api_base = UrlParse(newInput[1]).url[1]
            /\ (pc[t] = "done" /\ net[t].kind \in {"response", "failed"}) =>
                   result[t] = Outcome(op[t], net[t]).result

C10_Witness ==
    \E t, u \in Callers :
        /\ t # u
        /\ pc[t] = "done" /\ net[t].kind = "failed"
        /\ pc[u] = "done" /\ op[u] = "config" /\ result[u].kind = "Ok"
        /\ client = Some(newResult.value)

====
